---- MODULE Spec2Model ----
(***************************************************************************)
(* A model of rconbot: the RCON packet codec and client of                 *)
(* src/rconbot/rcon.py and the Discord handlers of src/rconbot/ext/base.py *)
(* that drive it.  Byte strings are sequences of 0..255, Python str values *)
(* are sequences of code points, and every asyncio task is a process whose *)
(* steps are the stretches of code between two suspension points.          *)
(***************************************************************************)
EXTENDS Integers, Sequences, FiniteSets, TLC

(***************************************************************************)
(* Bounds of the model.                                                    *)
(***************************************************************************)
\* on_modal invocations; each constructs one RCONClient (base.py:91)
NClients == 2
\* requests one client sends (cap on _i and on the writes of one client)
MaxCalls == 2
\* frames the server sends after one request
MaxFrames == 2
\* the transport may cut the first bytes of the stream off as a segment
MaxCut == 5
\* packets the codec's harness sends on a connection
MaxWrites == 1
\* the /disconnect commands a user gives
MaxDisconnects == 1

(***************************************************************************)
(* Program constants.                                                      *)
(***************************************************************************)
LOGIN == 3
EXECUTE == 2
RESPONSE == 0
\* rcon.py:78, the largest data _build_packet accepts
MaxData == 4096
\* rcon.py:125 and 127, the declared lengths _recv_packet accepts
MinFrame == 9
MaxFrame == 1455
\* rcon.py:198, a fragment shorter than this is the last one
FragmentSize == 4096

Clients == 1..NClients

(***************************************************************************)
(* Bytes and integers.  TLC's integers are 32 bits wide, so the unsigned   *)
(* value of four bytes saturates at 2^31-1: the code only compares it with *)
(* 9 and 1455.                                                             *)
(***************************************************************************)
MaxInt32 == 2147483647
MinInt32 == -2147483647 - 1

Fill(n, b) == [k \in 1..n |-> b]

Take(s, n) == IF Len(s) <= n THEN s ELSE SubSeq(s, 1, n)

Drop(s, n) == IF Len(s) <= n THEN <<>> ELSE SubSeq(s, n + 1, Len(s))

\* int.to_bytes(4, "little", signed=True); OverflowError outside int32
InInt32(v) == MinInt32 <= v /\ v <= MaxInt32

to_bytes_signed(v) ==
    IF v >= 0
    THEN [k \in 1..4 |-> (v \div (256 ^ (k - 1))) % 256]
    ELSE LET w == -(v + 1)
         IN  [k \in 1..4 |-> 255 - ((w \div (256 ^ (k - 1))) % 256)]

\* int.to_bytes(4, "little", signed=False) of a length
to_bytes_unsigned(v) == [k \in 1..4 |-> (v \div (256 ^ (k - 1))) % 256]

\* int.from_bytes(b, "little", signed=True) of four bytes
from_bytes_signed(b) ==
    IF b[4] < 128
    THEN b[1] + 256 * b[2] + 65536 * b[3] + 16777216 * b[4]
    ELSE -1 - ((255 - b[1]) + 256 * (255 - b[2]) + 65536 * (255 - b[3])
               + 16777216 * (255 - b[4]))

\* int.from_bytes(b, "little", signed=False) of four bytes
from_bytes_unsigned(b) ==
    IF b[4] < 128
    THEN b[1] + 256 * b[2] + 65536 * b[3] + 16777216 * b[4]
    ELSE MaxInt32

\* str.encode("utf_8") of one code point below 2048
EncodeChar(c) ==
    IF c < 128 THEN <<c>> ELSE <<192 + (c \div 64), 128 + (c % 64)>>

\* str.encode("utf_8"): the code points' encodings, concatenated
RECURSIVE encode(_)
encode(s) ==
    IF Len(s) = 0 THEN <<>>
    ELSE IF Len(s) = 1 THEN EncodeChar(s[1])
    ELSE LET h == Len(s) \div 2
         IN  encode(SubSeq(s, 1, h)) \o encode(SubSeq(s, h + 1, Len(s)))

\* bytes.find(b"\0"): the 1-based index of the first zero byte, 0 for none
find_zero(d) ==
    LET Z == {k \in 1..Len(d) : d[k] = 0}
    IN  IF Z = {} THEN 0 ELSE CHOOSE k \in Z : \A j \in Z : k <= j

(***************************************************************************)
(* Packet (rcon.py:13-34).  data is [kind, v]: a str (code points), bytes, *)
(* or neither (None, as a message without content has).                    *)
(***************************************************************************)
Str(s) == [kind |-> "str", v |-> s]
Bytes(b) == [kind |-> "bytes", v |-> b]
None == [kind |-> "none", v |-> <<>>]

Packet(request_id, type, data) ==
    [request_id |-> request_id, type |-> type, data |-> data]

\* What a call gives: exc is "none" or the exception, val the value.
Return(v) == [exc |-> "none", val |-> v]
Raise(e) == [exc |-> e, val |-> <<>>]

\* The exceptions of rcon.py are all ValueError but one.
ValueErrors ==
    {"ValueError: Data is not str", "ValueError: too large data",
     "ValueError: incorrect packet length", "ValueError: too small packet",
     "ValueError: too big packet", "ValueError: incorrect packet",
     "ValueError: data is not zero-terminated",
     "ValueError: Invalid request ID", "ValueError: Invalid response type"}

\* Packet.must_str
must_str(packet) ==
    IF packet.data.kind # "str"
    THEN Raise("ValueError: Data is not str")
    ELSE Return(packet.data.v)

\* _build_packet with the size limit off by one
_build_packet_off_by_one(packet) ==
    IF packet.data.kind \notin {"str", "bytes"} THEN Raise("TypeError")
    ELSE LET d == IF packet.data.kind = "str" THEN encode(packet.data.v)
                  ELSE packet.data.v
         IN  IF Len(d) >= MaxData THEN Raise("ValueError: too large data")
             ELSE IF ~InInt32(packet.request_id) \/ ~InInt32(packet.type)
             THEN Raise("OverflowError")
             ELSE Return(to_bytes_signed(packet.request_id)
                         \o to_bytes_signed(packet.type) \o d \o <<0>>)

\* _build_packet: request_id + type + data + one zero byte
_build_packet(packet) ==
    IF packet.data.kind \notin {"str", "bytes"} THEN Raise("TypeError")
    ELSE LET d == IF packet.data.kind = "str" THEN encode(packet.data.v)
                  ELSE packet.data.v
         IN  IF Len(d) > MaxData THEN Raise("ValueError: too large data")
             ELSE IF ~InInt32(packet.request_id) \/ ~InInt32(packet.type)
             THEN Raise("OverflowError")
             ELSE Return(to_bytes_signed(packet.request_id)
                         \o to_bytes_signed(packet.type) \o d \o <<0>>)

\* _send_packet: what is written, the length prefix and the built packet
_send_packet(packet) ==
    LET payload == _build_packet(packet)
    IN  IF payload.exc # "none" THEN payload
        ELSE Return(to_bytes_unsigned(Len(payload.val)) \o payload.val)

\* _send_text_packet that leaves the terminator out
_send_text_packet_unterminated(packet) ==
    LET s == must_str(packet)
    IN  IF s.exc # "none" THEN s
        ELSE _send_packet(Packet(packet.request_id, packet.type,
                                 Bytes(encode(s.val))))

\* _send_text_packet: the text, encoded, with a zero byte after it
_send_text_packet(packet) ==
    LET s == must_str(packet)
    IN  IF s.exc # "none" THEN s
        ELSE _send_packet(Packet(packet.request_id, packet.type,
                                 Bytes(encode(s.val) \o <<0>>)))

\* recv_length without the upper bound
recv_length_no_maximum(nb) ==
    IF Len(nb) # 4 THEN Raise("ValueError: incorrect packet length")
    ELSE LET n == from_bytes_unsigned(nb)
         IN  IF n < MinFrame THEN Raise("ValueError: too small packet")
             ELSE Return(n)

\* recv_length with the upper bound off by one
recv_length_off_by_one(nb) ==
    IF Len(nb) # 4 THEN Raise("ValueError: incorrect packet length")
    ELSE LET n == from_bytes_unsigned(nb)
         IN  IF n < MinFrame THEN Raise("ValueError: too small packet")
             ELSE IF n >= MaxFrame THEN Raise("ValueError: too big packet")
             ELSE Return(n)

\* _recv_packet, lines 119-130: the four bytes read as the length
recv_length(nb) ==
    IF Len(nb) # 4 THEN Raise("ValueError: incorrect packet length")
    ELSE LET n == from_bytes_unsigned(nb)
         IN  IF n < MinFrame THEN Raise("ValueError: too small packet")
             ELSE IF n > MaxFrame THEN Raise("ValueError: too big packet")
             ELSE Return(n)

\* _recv_packet, lines 131-140: the bytes read as the body of n bytes
recv_body(packet, n) ==
    IF Len(packet) # n THEN Raise("ValueError: incorrect packet")
    ELSE Return(Packet(from_bytes_signed(SubSeq(packet, 1, 4)),
                       from_bytes_signed(SubSeq(packet, 5, 8)),
                       Bytes(SubSeq(packet, 9, Len(packet) - 1))))

\* _recv_text_packet, lines 144-148, of the packet _recv_packet returned
recv_text(packet) ==
    LET d == packet.data.v
        zero == find_zero(d)
    IN  IF zero = 0 THEN Raise("ValueError: data is not zero-terminated")
        ELSE Return(Packet(packet.request_id, packet.type,
                           Bytes(SubSeq(d, 1, zero - 1))))

\* login_check that takes only the id -1 for a refusal
login_check_minus_one(i, packet) ==
    IF packet.request_id = -1 THEN Raise("ValueError: Invalid request ID")
    ELSE Return(<<>>)

\* login_check that also wants the type RESPONSE
login_check_with_type(i, packet) ==
    IF packet.request_id # i THEN Raise("ValueError: Invalid request ID")
    ELSE IF packet.type # RESPONSE
    THEN Raise("ValueError: Invalid response type")
    ELSE Return(<<>>)

\* login, lines 172-175: the check of the response
login_check(i, packet) ==
    IF packet.request_id # i THEN Raise("ValueError: Invalid request ID")
    ELSE Return(<<>>)

\* execute, lines 187-199: one fragment read; result is execute's result
\* after it, more whether the loop reads another
Fragment(e, res, more) == [exc |-> e, result |-> res, more |-> more]

\* execute_fragment with the payload appended before the checks
execute_fragment_appends_first(i, res, packet) ==
    IF packet.request_id # i
    THEN Fragment("ValueError: Invalid request ID", res \o packet.data.v,
                  FALSE)
    ELSE IF packet.type # RESPONSE
    THEN Fragment("ValueError: Invalid response type", res \o packet.data.v,
                  FALSE)
    ELSE Fragment("none", res \o packet.data.v,
                  ~(Len(packet.data.v) < FragmentSize))

\* execute_fragment with the type checked before the request id
execute_fragment_type_first(i, res, packet) ==
    IF packet.type # RESPONSE
    THEN Fragment("ValueError: Invalid response type", res, FALSE)
    ELSE IF packet.request_id # i
    THEN Fragment("ValueError: Invalid request ID", res, FALSE)
    ELSE LET payload == packet.data.v
         IN  Fragment("none", res \o payload,
                      ~(Len(payload) < FragmentSize))

execute_fragment(i, res, packet) ==
    IF packet.request_id # i
    THEN Fragment("ValueError: Invalid request ID", res, FALSE)
    ELSE IF packet.type # RESPONSE
    THEN Fragment("ValueError: Invalid response type", res, FALSE)
    ELSE LET payload == packet.data.v
         IN  Fragment("none", res \o payload,
                      ~(Len(payload) < FragmentSize))

\* advance that leaves the counter as it is
advance_none(i) == i

\* login and execute, lines 167-168 and 180-181: self._i += 1
advance(i) == i + 1

(***************************************************************************)
(* State.  A task is one invocation of connect together with the on_modal  *)
(* invocation its modal leads to; the locals of a task's coroutines are    *)
(* indexed by the task, the fields of an RCONClient by the client.         *)
(***************************************************************************)
Tasks == 1..NClients
Users == 1..2

VARIABLES
    _i,        \* RCONClient._i
    conn,      \* "unopened", "open" (open() returned), "closed" (close())
    written,   \* the byte strings given to _writer.write, in order
    sent,      \* the frames the server sent since the last request
    pending,   \* bytes the server sent that the transport still carries
    inbuf,     \* bytes in _reader's buffer
    eof,       \* the server has closed its side of the stream
    cut,       \* the transport has handed over less than it carried
    op,        \* the call a task last started: "login", "execute", ...
    rd,        \* where its _recv_packet is suspended: "len", "body", "none"
    frame_n,   \* _recv_packet's n
    req_i,     \* login's and execute's i
    result,    \* execute's result
    exc,       \* "pending", or how the call ended: "none" or the exception
    ret,       \* the bytes execute returned
    got,       \* <<the packet the last _recv_(text_)packet returned>>
    nread,     \* frames _recv_packet returned to the call
    arg,       \* the packet a task last gave to a send, and to which
    fresh,     \* the reader's buffer was empty when login/execute began
    rcons,     \* Bot.rcons: user id -> client
    user,      \* the author of a task's /rcon interaction, 0 before it
    cpc,       \* where a task's connect is
    mpc,       \* where a task's on_modal is
    authed,    \* a login call on the client has returned
    disconnected  \* how often /disconnect has answered a user

clientVars == <<_i, conn, written, authed>>
netVars == <<sent, pending, inbuf, eof, cut>>
callVars == <<op, rd, frame_n, req_i, result, exc, ret, got, nread, arg,
              fresh>>
botVars == <<rcons, user, cpc, mpc, disconnected>>
vars == <<_i, conn, written, sent, pending, inbuf, eof, cut, op, rd,
          frame_n, req_i, result, exc, ret, got, nread, arg, fresh, rcons,
          user, cpc, mpc, authed, disconnected>>

\* ClientOf with one client shared by every invocation
ClientOfShared(t) == 1

\* on_modal, line 91: every invocation constructs its own client
ClientOf(t) == t

Sent(via, packet) == [via |-> via, packet |-> packet]

Init ==
    /\ _i = [c \in Clients |-> 0]
    /\ conn = [c \in Clients |-> "unopened"]
    /\ written = [c \in Clients |-> <<>>]
    /\ sent = [c \in Clients |-> <<>>]
    /\ pending = [c \in Clients |-> <<>>]
    /\ inbuf = [c \in Clients |-> <<>>]
    /\ eof = [c \in Clients |-> FALSE]
    /\ cut = [c \in Clients |-> FALSE]
    /\ op = [t \in Tasks |-> "none"]
    /\ rd = [t \in Tasks |-> "none"]
    /\ frame_n = [t \in Tasks |-> 0]
    /\ req_i = [t \in Tasks |-> 0]
    /\ result = [t \in Tasks |-> <<>>]
    /\ exc = [t \in Tasks |-> "none"]
    /\ ret = [t \in Tasks |-> <<>>]
    /\ got = [t \in Tasks |-> <<>>]
    /\ nread = [t \in Tasks |-> 0]
    /\ arg = [t \in Tasks |-> Sent("none", Packet(0, 0, None))]
    /\ fresh = [t \in Tasks |-> TRUE]
    /\ rcons = <<>>
    /\ user = [t \in Tasks |-> 0]
    /\ cpc = [t \in Tasks |-> "idle"]
    /\ mpc = [t \in Tasks |-> "idle"]
    /\ authed = [c \in Clients |-> FALSE]
    /\ disconnected = [u \in Users |-> 0]

(***************************************************************************)
(* The server and the transport.  A frame of the server is a descriptor:   *)
(* "text" is request_id, type, n bytes of payload, the terminator and the  *)
(* pad; "bare" is the same without the terminator; "raw" is a prefix that  *)
(* declares n followed by n bytes; "echo" is the client's last write.      *)
(***************************************************************************)
Frame(form, id, type, n) == [form |-> form, id |-> id, type |-> type, n |-> n]

Framed(body) == to_bytes_unsigned(Len(body)) \o body

FrameBytes(c, f) ==
    CASE f.form = "text" ->
           Framed(to_bytes_signed(f.id) \o to_bytes_signed(f.type)
                  \o Fill(f.n, 65) \o <<0, 0>>)
      [] f.form = "bare" ->
           Framed(to_bytes_signed(f.id) \o to_bytes_signed(f.type)
                  \o Fill(f.n, 65) \o <<0>>)
      [] f.form = "raw" -> to_bytes_unsigned(f.n) \o Fill(f.n, 65)
      [] OTHER -> written[c][Len(written[c])]

\* the request id of the client's last write, as the server reads it
LastId(c) ==
    IF written[c] = <<>> THEN 0
    ELSE from_bytes_signed(SubSeq(written[c][Len(written[c])], 5, 8))

\* asyncio.StreamReader.read returns once a byte is buffered or at EOF
CanRead(c) == inbuf[c] # <<>> \/ (eof[c] /\ pending[c] = <<>>)

ServerSend(c, f) ==
    /\ conn[c] = "open" /\ ~eof[c]
    /\ Len(sent[c]) < MaxFrames
    /\ sent' = [sent EXCEPT ![c] = Append(@, f)]
    /\ pending' = [pending EXCEPT ![c] = @ \o FrameBytes(c, f)]
    /\ UNCHANGED <<inbuf, eof, cut>>
    /\ UNCHANGED <<clientVars, callVars, botVars>>

ServerClose(c) ==
    /\ conn[c] = "open" /\ ~eof[c]
    /\ eof' = [eof EXCEPT ![c] = TRUE]
    /\ UNCHANGED <<sent, pending, inbuf, cut>>
    /\ UNCHANGED <<clientVars, callVars, botVars>>

\* the transport hands the reader the next k bytes of the stream
Deliver(c, k) ==
    /\ pending[c] # <<>> /\ inbuf[c] = <<>>
    /\ k \in 1..Len(pending[c])
    /\ inbuf' = [inbuf EXCEPT ![c] = Take(pending[c], k)]
    /\ pending' = [pending EXCEPT ![c] = Drop(@, k)]
    /\ cut' = [cut EXCEPT ![c] = @ \/ k < Len(pending[c])]
    /\ UNCHANGED <<sent, eof>>
    /\ UNCHANGED <<clientVars, callVars, botVars>>

DeliverAll(c) == Deliver(c, Len(pending[c]))

DeliverCut(c) == \E k \in 1..MaxCut : k < Len(pending[c]) /\ Deliver(c, k)

(***************************************************************************)
(* The calls of RCONClient.  A call runs to its first read; each read is a *)
(* step of its own, taken when the reader has a byte or has seen EOF.      *)
(***************************************************************************)
\* ModalNext that goes on to the session when login raised
ModalNextIgnoresFailure(kind, e) ==
    IF e = "pending" THEN kind
    ELSE IF kind = "login" THEN "connected"
    ELSE (IF e = "none" THEN "respond" ELSE "crashed")

\* on_modal, lines 99-106 and 117: where it is once the call is at e
ModalNext(kind, e) ==
    IF e = "pending" THEN kind
    ELSE IF kind = "login"
    THEN (IF e = "none" THEN "connected"
          ELSE IF e \in ValueErrors THEN "login_failed" ELSE "crashed")
    ELSE (IF e = "none" THEN "respond" ELSE "crashed")

InModal(t) == mpc[t] \in {"login", "execute"}

Put(d, k, v) == [x \in DOMAIN d \cup {k} |-> IF x = k THEN v ELSE d[x]]

Del(d, k) == [x \in DOMAIN d \ {k} |-> d[x]]

\* Begin that takes the id only once the send has written
BeginAdvancesOnSend(t, kind, data) ==
    LET c == ClientOf(t)
        i == _i[c]
        packet == Packet(i, IF kind = "login" THEN LOGIN ELSE EXECUTE, data)
        s == _send_text_packet(packet)
    IN  /\ _i' = [_i EXCEPT ![c] = IF s.exc = "none" THEN advance(i)
                                 ELSE i]
        /\ op' = [op EXCEPT ![t] = kind]
        /\ req_i' = [req_i EXCEPT ![t] = i]
        /\ result' = [result EXCEPT ![t] = <<>>]
        /\ ret' = [ret EXCEPT ![t] = <<>>]
        /\ got' = [got EXCEPT ![t] = <<>>]
        /\ nread' = [nread EXCEPT ![t] = 0]
        /\ arg' = [arg EXCEPT ![t] = Sent("_send_text_packet", packet)]
        /\ fresh' = [fresh EXCEPT ![t] = inbuf[c] = <<>>]
        /\ frame_n' = frame_n
        /\ IF s.exc = "none"
           THEN /\ written' = [written EXCEPT ![c] = Append(@, s.val)]
                /\ sent' = [sent EXCEPT ![c] = <<>>]
                /\ rd' = [rd EXCEPT ![t] = "len"]
                /\ exc' = [exc EXCEPT ![t] = "pending"]
           ELSE /\ UNCHANGED <<written, sent>>
                /\ rd' = [rd EXCEPT ![t] = "none"]
                /\ exc' = [exc EXCEPT ![t] = s.exc]
        /\ mpc' = [mpc EXCEPT ![t] = ModalNext(kind, exc'[t])]

\* login, lines 167-170, and execute, lines 180-184: the id, the send
Begin(t, kind, data) ==
    LET c == ClientOf(t)
        i == _i[c]
        packet == Packet(i, IF kind = "login" THEN LOGIN ELSE EXECUTE, data)
        s == _send_text_packet(packet)
    IN  /\ _i' = [_i EXCEPT ![c] = advance(i)]
        /\ op' = [op EXCEPT ![t] = kind]
        /\ req_i' = [req_i EXCEPT ![t] = i]
        /\ result' = [result EXCEPT ![t] = <<>>]
        /\ ret' = [ret EXCEPT ![t] = <<>>]
        /\ got' = [got EXCEPT ![t] = <<>>]
        /\ nread' = [nread EXCEPT ![t] = 0]
        /\ arg' = [arg EXCEPT ![t] = Sent("_send_text_packet", packet)]
        /\ fresh' = [fresh EXCEPT ![t] = inbuf[c] = <<>>]
        /\ frame_n' = frame_n
        /\ IF s.exc = "none"
           THEN /\ written' = [written EXCEPT ![c] = Append(@, s.val)]
                /\ sent' = [sent EXCEPT ![c] = <<>>]
                /\ rd' = [rd EXCEPT ![t] = "len"]
                /\ exc' = [exc EXCEPT ![t] = "pending"]
           ELSE /\ UNCHANGED <<written, sent>>
                /\ rd' = [rd EXCEPT ![t] = "none"]
                /\ exc' = [exc EXCEPT ![t] = s.exc]
        /\ mpc' = [mpc EXCEPT ![t] = ModalNext(kind, exc'[t])]

\* RecvLen that closes the transport when the length is refused
RecvLenClosesOnError(t) ==
    LET c == ClientOf(t)
        r == recv_length(Take(inbuf[c], 4))
    IN  /\ rd[t] = "len" /\ CanRead(c)
        /\ inbuf' = [inbuf EXCEPT ![c] = Drop(@, 4)]
        /\ IF r.exc = "none"
           THEN /\ frame_n' = [frame_n EXCEPT ![t] = r.val]
                /\ rd' = [rd EXCEPT ![t] = "body"]
                /\ UNCHANGED <<exc, mpc, conn>>
           ELSE /\ rd' = [rd EXCEPT ![t] = "none"]
                /\ exc' = [exc EXCEPT ![t] = r.exc]
                /\ conn' = [conn EXCEPT ![c] = "closed"]
                /\ mpc' = IF InModal(t)
                          THEN [mpc EXCEPT ![t] = ModalNext(op[t], r.exc)]
                          ELSE mpc
                /\ UNCHANGED frame_n
        /\ UNCHANGED <<_i, written, authed, sent, pending, eof, cut>>
        /\ UNCHANGED <<op, req_i, result, ret, got, nread, arg, fresh>>
        /\ UNCHANGED <<rcons, user, cpc, disconnected>>

\* _recv_packet, lines 119-130: the read of the length
RecvLen(t) ==
    LET c == ClientOf(t)
        r == recv_length(Take(inbuf[c], 4))
    IN  /\ rd[t] = "len" /\ CanRead(c)
        /\ inbuf' = [inbuf EXCEPT ![c] = Drop(@, 4)]
        /\ IF r.exc = "none"
           THEN /\ frame_n' = [frame_n EXCEPT ![t] = r.val]
                /\ rd' = [rd EXCEPT ![t] = "body"]
                /\ UNCHANGED <<exc, mpc>>
           ELSE /\ rd' = [rd EXCEPT ![t] = "none"]
                /\ exc' = [exc EXCEPT ![t] = r.exc]
                /\ mpc' = IF InModal(t)
                          THEN [mpc EXCEPT ![t] = ModalNext(op[t], r.exc)]
                          ELSE mpc
                /\ UNCHANGED frame_n
        /\ UNCHANGED <<clientVars, sent, pending, eof, cut>>
        /\ UNCHANGED <<op, req_i, result, ret, got, nread, arg, fresh>>
        /\ UNCHANGED <<rcons, user, cpc, disconnected>>

\* What the caller of _recv_packet does with r, what it returned or raised:
\* login lines 172-175, execute lines 186-200, _recv_text_packet 144-148.
Resumed(e, res, g) == [exc |-> e, result |-> res, got |-> g]

Resume(kind, i, res, r) ==
    IF r.exc # "none" THEN Resumed(r.exc, res, <<>>)
    ELSE CASE kind = "login" ->
                Resumed(login_check(i, r.val).exc, res, <<r.val>>)
           [] kind = "execute" ->
                LET p == recv_text(r.val)
                    f == execute_fragment(i, res, p.val)
                IN  IF p.exc # "none" THEN Resumed(p.exc, res, <<>>)
                    ELSE Resumed(IF f.exc = "none" /\ f.more THEN "pending"
                                 ELSE f.exc, f.result, <<p.val>>)
           [] kind = "_recv_text_packet" ->
                LET p == recv_text(r.val)
                IN  Resumed(p.exc, res,
                            IF p.exc = "none" THEN <<p.val>> ELSE <<>>)
           [] OTHER -> Resumed("none", res, <<r.val>>)

\* _recv_packet, lines 131-140: the read of the body, and the caller's code
\* up to its next read or its end (on_modal's lines 106 included)
RecvBody(t) ==
    LET c == ClientOf(t)
        r == recv_body(Take(inbuf[c], frame_n[t]), frame_n[t])
        s == Resume(op[t], req_i[t], result[t], r)
    IN  /\ rd[t] = "body" /\ CanRead(c)
        /\ inbuf' = [inbuf EXCEPT ![c] = Drop(@, frame_n[t])]
        /\ nread' = [nread EXCEPT ![t] = IF r.exc = "none" THEN @ + 1 ELSE @]
        /\ got' = [got EXCEPT ![t] = s.got]
        /\ result' = [result EXCEPT ![t] = s.result]
        /\ exc' = [exc EXCEPT ![t] = s.exc]
        /\ rd' = [rd EXCEPT ![t] = IF s.exc = "pending" THEN "len" ELSE "none"]
        /\ ret' = [ret EXCEPT ![t] = IF op[t] = "execute" /\ s.exc = "none"
                                     THEN s.result ELSE @]
        /\ authed' = [authed EXCEPT ![c] = @ \/ (op[t] = "login"
                                                 /\ s.exc = "none")]
        /\ mpc' = IF InModal(t)
                  THEN [mpc EXCEPT ![t] = ModalNext(op[t], s.exc)]
                  ELSE mpc
        /\ rcons' = IF mpc[t] = "login" /\ s.exc = "none"
                    THEN Put(rcons, user[t], c) ELSE rcons
        /\ UNCHANGED <<_i, conn, written, sent, pending, eof, cut>>
        /\ UNCHANGED <<op, req_i, frame_n, arg, fresh, user, cpc,
                       disconnected>>

(***************************************************************************)
(* The handlers of src/rconbot/ext/base.py.                                *)
(***************************************************************************)
\* connect, lines 21-56: /rcon by user u, answered with the modal
connect(t, u) ==
    /\ cpc[t] = "idle"
    /\ (IF t = 1 THEN u = 1 ELSE cpc[t - 1] # "idle")
    /\ user' = [user EXCEPT ![t] = u]
    /\ cpc' = [cpc EXCEPT ![t] = IF u \in DOMAIN rcons THEN "refused"
                                 ELSE "sleeping"]
    /\ UNCHANGED <<clientVars, netVars, callVars, rcons, mpc, disconnected>>

\* connect, lines 57-58: the sleep of 60 seconds is over
connect_timer(t) ==
    /\ cpc[t] = "sleeping"
    /\ IF user[t] \in DOMAIN rcons
       THEN /\ rcons' = Del(rcons, user[t])
            /\ cpc' = [cpc EXCEPT ![t] = "done"]
       ELSE /\ cpc' = [cpc EXCEPT ![t] = "KeyError"]
            /\ UNCHANGED rcons
    /\ UNCHANGED <<clientVars, netVars, callVars, user, mpc, disconnected>>

\* on_modal, lines 63-92: the modal is submitted
on_modal(t) ==
    /\ cpc[t] \in {"sleeping", "done", "KeyError"}
    /\ mpc[t] = "idle"
    /\ mpc' = [mpc EXCEPT ![t] = IF user[t] \in DOMAIN rcons THEN "refused"
                                 ELSE "open"]
    /\ UNCHANGED <<clientVars, netVars, callVars, rcons, user, cpc,
                   disconnected>>

\* on_modal, lines 94-98: open() raises
on_modal_open_failed(t) ==
    /\ mpc[t] = "open"
    /\ mpc' = [mpc EXCEPT ![t] = "open_failed"]
    /\ UNCHANGED <<clientVars, netVars, callVars, rcons, user, cpc,
                   disconnected>>

\* on_modal, lines 94 and 100: open() returns (RCONClient.open, line 111)
\* and login starts
on_modal_login(t, password) ==
    LET c == ClientOf(t)
    IN  /\ mpc[t] = "open"
        /\ conn' = [conn EXCEPT ![c] = "open"]
        /\ pending' = [pending EXCEPT ![c] = <<>>]
        /\ inbuf' = [inbuf EXCEPT ![c] = <<>>]
        /\ eof' = [eof EXCEPT ![c] = FALSE]
        /\ Begin(t, "login", password)
        /\ UNCHANGED <<authed, cut, rcons, user, cpc, disconnected>>

\* on_modal, lines 101-105: login raised ValueError
on_modal_login_failed(t) ==
    /\ mpc[t] = "login_failed"
    /\ conn' = [conn EXCEPT ![ClientOf(t)] = "closed"]
    /\ mpc' = [mpc EXCEPT ![t] = "done"]
    /\ UNCHANGED <<_i, written, authed, netVars, callVars, rcons, user, cpc,
                   disconnected>>

\* on_modal, line 107: "Connected. Type commands."
on_modal_connected(t) ==
    /\ mpc[t] = "connected"
    /\ mpc' = [mpc EXCEPT ![t] = "waiting"]
    /\ UNCHANGED <<clientVars, netVars, callVars, rcons, user, cpc,
                   disconnected>>

\* on_modal, lines 110-117: a message of the user arrives, execute starts
on_modal_message(t, command) ==
    /\ mpc[t] = "waiting"
    /\ _i[ClientOf(t)] < MaxCalls
    /\ Begin(t, "execute", command)
    /\ UNCHANGED <<conn, authed, pending, inbuf, eof, cut, rcons, user, cpc,
                   disconnected>>

\* on_modal, lines 118-126: the response is relayed (the payloads of the
\* model's server are ASCII, which decode("utf_8") accepts)
on_modal_respond(t) ==
    /\ mpc[t] = "respond"
    /\ mpc' = [mpc EXCEPT ![t] = "waiting"]
    /\ UNCHANGED <<clientVars, netVars, callVars, rcons, user, cpc,
                   disconnected>>

\* on_modal, lines 115-116: no message for 300 seconds
on_modal_timeout(t) ==
    /\ mpc[t] = "waiting"
    /\ mpc' = [mpc EXCEPT ![t] = "terminating"]
    /\ UNCHANGED <<clientVars, netVars, callVars, rcons, user, cpc,
                   disconnected>>

\* on_modal, lines 127-129: close() (RCONClient.close, line 116), del
on_modal_terminate(t) ==
    /\ mpc[t] = "terminating"
    /\ conn' = [conn EXCEPT ![ClientOf(t)] = "closed"]
    /\ IF user[t] \in DOMAIN rcons
       THEN /\ rcons' = Del(rcons, user[t])
            /\ mpc' = [mpc EXCEPT ![t] = "done"]
       ELSE /\ mpc' = [mpc EXCEPT ![t] = "KeyError"]
            /\ UNCHANGED rcons
    /\ UNCHANGED <<_i, written, authed, netVars, callVars, user, cpc,
                   disconnected>>

\* disconnect, lines 135-137: it answers "Disconnected." and does no more;
\* the answers a user got are counted
disconnect(u) ==
    /\ disconnected[u] < MaxDisconnects
    /\ disconnected' = [disconnected EXCEPT ![u] = @ + 1]
    /\ UNCHANGED <<clientVars, netVars, callVars, rcons, user, cpc, mpc>>

(***************************************************************************)
(* The server of a session: it answers while a call waits for it, and the  *)
(* transport hands the reader each frame whole.                            *)
(***************************************************************************)
Busy(c) == \E t \in Tasks : ClientOf(t) = c /\ rd[t] # "none"

Reply(c, f, m) ==
    /\ Busy(c)
    /\ conn[c] = "open" /\ ~eof[c]
    /\ Len(sent[c]) < m
    /\ sent' = [sent EXCEPT ![c] = Append(@, f)]
    /\ inbuf' = [inbuf EXCEPT ![c] = @ \o FrameBytes(c, f)]
    /\ UNCHANGED <<pending, eof, cut>>
    /\ UNCHANGED <<clientVars, callVars, botVars>>

Hangup(c) == Busy(c) /\ ServerClose(c)

(***************************************************************************)
(* The inputs.                                                             *)
(***************************************************************************)
\* a password of the modal (a str of at least one character)
Passwords == {Str(<<112, 119>>)}

\* the content of a message: a text, or None
Commands == {Str(<<65, 66>>), None}

\* the server's frames of the bot's specification, for the last request
\* id: a response, and the refusal of a login (-1)
Frames(c) ==
    {Frame("text", LastId(c), RESPONSE, 2), Frame("text", -1, EXECUTE, 0)}

Handler(t, P, C) ==
    \/ \E u \in Users : connect(t, u)
    \/ connect_timer(t)
    \/ on_modal(t)
    \/ on_modal_open_failed(t)
    \/ \E password \in P : on_modal_login(t, password)
    \/ on_modal_login_failed(t)
    \/ on_modal_connected(t)
    \/ \E command \in C : on_modal_message(t, command)
    \/ on_modal_respond(t)
    \/ on_modal_timeout(t)
    \/ on_modal_terminate(t)
    \/ RecvLen(t)
    \/ RecvBody(t)

Next ==
    \/ \E t \in Tasks : Handler(t, Passwords, Commands)
    \/ \E u \in Users : disconnect(u)
    \/ \E c \in Clients : \E f \in Frames(c) : Reply(c, f, 1)

Spec == Init /\ [][Next]_vars

(***************************************************************************)
(* One session against a server that answers with any of a wider choice of *)
(* frames, with up to MaxFrames of them, or hangs up.                      *)
(***************************************************************************)
LongPasswords ==
    Passwords \cup {Str(Fill(MaxData, 65)), Str(Fill(MaxData \div 2, 167))}

LongCommands ==
    Commands \cup {Str(Fill(MaxData - 1, 65)), Str(Fill(MaxData, 65))}

SessionFrames(c) ==
    LET i == LastId(c)
    IN  {Frame("text", i, RESPONSE, 0), Frame("text", i, RESPONSE, 10),
         Frame("text", i, RESPONSE, MaxFrame - 10),
         Frame("text", i, RESPONSE, MaxFrame - 9),
         Frame("text", i, RESPONSE, FragmentSize),
         Frame("text", i, EXECUTE, 10),
         Frame("text", -1, RESPONSE, 10), Frame("text", i + 1, EXECUTE, 10),
         Frame("bare", i, RESPONSE, 1),
         Frame("raw", 0, 0, MinFrame - 1)}

NextSession ==
    \/ Handler(1, LongPasswords, LongCommands)
    \/ \E f \in SessionFrames(1) : Reply(1, f, MaxFrames)
    \/ Hangup(1)

SpecSession == Init /\ [][NextSession]_vars

(***************************************************************************)
(* The codec alone: a harness opens a client and calls _send_packet,       *)
(* _send_text_packet, _recv_packet and _recv_text_packet on it; the peer   *)
(* echoes what was written or sends frames of its own, and the transport   *)
(* hands the stream over in segments.                                      *)
(***************************************************************************)
test_open(t) ==
    /\ conn[ClientOf(t)] = "unopened"
    /\ conn' = [conn EXCEPT ![ClientOf(t)] = "open"]
    /\ UNCHANGED <<_i, written, authed, netVars, callVars, botVars>>

\* a call of _send_packet or _send_text_packet: s is what it writes
test_send(t, kind, packet, s) ==
    LET c == ClientOf(t)
    IN  /\ conn[c] = "open" /\ rd[t] = "none"
        /\ exc[t] = "none" /\ sent[c] = <<>>
        /\ Len(written[c]) < MaxWrites
        /\ op' = [op EXCEPT ![t] = kind]
        /\ exc' = [exc EXCEPT ![t] = s.exc]
        /\ arg' = [arg EXCEPT ![t] = Sent(kind, packet)]
        /\ IF s.exc = "none"
           THEN /\ written' = [written EXCEPT ![c] = Append(@, s.val)]
                /\ sent' = [sent EXCEPT ![c] = <<>>]
           ELSE UNCHANGED <<written, sent>>
        /\ UNCHANGED <<_i, conn, authed, pending, inbuf, eof, cut>>
        /\ UNCHANGED <<rd, frame_n, req_i, result, ret, got, nread, fresh>>
        /\ UNCHANGED botVars

test_send_packet(t, packet) ==
    test_send(t, "_send_packet", packet, _send_packet(packet))

test_send_text_packet(t, packet) ==
    test_send(t, "_send_text_packet", packet, _send_text_packet(packet))

\* a call of _recv_packet or _recv_text_packet starts (the harness makes
\* no further call once one has raised)
test_recv(t, kind) ==
    /\ conn[ClientOf(t)] = "open" /\ rd[t] = "none"
    /\ exc[t] = "none"
    /\ op' = [op EXCEPT ![t] = kind]
    /\ rd' = [rd EXCEPT ![t] = "len"]
    /\ exc' = [exc EXCEPT ![t] = "pending"]
    /\ got' = [got EXCEPT ![t] = <<>>]
    /\ nread' = [nread EXCEPT ![t] = 0]
    /\ UNCHANGED <<clientVars, netVars, botVars>>
    /\ UNCHANGED <<frame_n, req_i, result, ret, arg, fresh>>

CodecPackets ==
    {Packet(MinInt32, LOGIN, Bytes(<<>>)),
     Packet(-1, EXECUTE, Bytes(<<65, 0, 66>>)),
     Packet(MaxInt32, RESPONSE, Bytes(Fill(MaxFrame - 9, 65))),
     Packet(0, -1, Bytes(Fill(MaxFrame - 8, 65))),
     Packet(1, LOGIN, Bytes(Fill(MaxData, 65))),
     Packet(1, LOGIN, Bytes(Fill(MaxData + 1, 65))),
     Packet(1, EXECUTE, Str(<<65, 167>>)),
     Packet(1, EXECUTE, None)}

CodecTextPackets ==
    {Packet(0, LOGIN, Str(<<>>)),
     Packet(MinInt32, EXECUTE, Str(<<65, 167>>)),
     Packet(MaxInt32, RESPONSE, Str(Fill(MaxFrame - 10, 65))),
     Packet(-1, -1, Str(Fill(MaxFrame - 9, 65))),
     Packet(1, EXECUTE, Str(Fill(MaxData - 1, 65))),
     Packet(1, EXECUTE, Str(Fill(MaxData, 65))),
     Packet(1, EXECUTE, Str(<<65, 0, 66>>)),
     Packet(1, EXECUTE, Bytes(<<65>>))}

\* the peer's frames: the echo of what was written, or, when nothing was,
\* frames of its own with bodies of 8, 9, 10, 1455, 1456 bytes
Echo == Frame("echo", 0, 0, 0)

CodecFrames ==
    {Frame("raw", 0, 0, MinFrame - 1),
     Frame("bare", 7, RESPONSE, 0), Frame("bare", -1, EXECUTE, 1),
     Frame("bare", 7, RESPONSE, MaxFrame - 9),
     Frame("bare", 7, RESPONSE, MaxFrame - 8)}

NextCodec ==
    \/ test_open(1)
    \/ \E packet \in CodecPackets : test_send_packet(1, packet)
    \/ \E packet \in CodecTextPackets : test_send_text_packet(1, packet)
    \/ test_recv(1, "_recv_packet")
    \/ test_recv(1, "_recv_text_packet")
    \/ RecvLen(1)
    \/ RecvBody(1)
    \/ \E f \in CodecFrames : written[1] = <<>> /\ ServerSend(1, f)
    \/ written[1] # <<>> /\ ServerSend(1, Echo)
    \/ ServerClose(1)
    \/ DeliverAll(1)
    \/ DeliverCut(1)

SpecCodec == Init /\ [][NextCodec]_vars

(***************************************************************************)
(* The claims.                                                             *)
(***************************************************************************)
Finished(t) == rd[t] = "none" /\ exc[t] # "pending"

ShortRead ==
    {"ValueError: incorrect packet length", "ValueError: incorrect packet"}

\* C1: when the server answers an execute request, on a connection with
\* nothing left unread, with a fragment of 4096 payload bytes followed by a
\* fragment of 10 payload bytes, both with the request's id and type
\* RESPONSE, execute returns the concatenation of both, 4106 bytes.
C1_TwoFragmentsAreConcatenated ==
    \A t \in Tasks :
        (/\ op[t] = "execute" /\ Finished(t) /\ fresh[t]
         /\ sent[ClientOf(t)] =
                <<Frame("text", req_i[t], RESPONSE, FragmentSize),
                  Frame("text", req_i[t], RESPONSE, 10)>>)
        => /\ exc[t] = "none"
           /\ ret[t] = Fill(FragmentSize + 10, 65)

\* C2: reading a frame waits for all the bytes it asked for: a read gives
\* fewer bytes than requested, and _recv_packet raises for it, only when the
\* stream has ended, however the transport splits the frame.
C2_ShortReadOnlyAtEndOfStream ==
    \A t \in Tasks :
        exc[t] \in ShortRead
        => eof[ClientOf(t)] /\ pending[ClientOf(t)] = <<>>

\* C3: when on_modal has ended, in whatever way, a client whose open()
\* succeeded has been closed.
Ended == {"refused", "open_failed", "done", "KeyError", "crashed"}

C3_OpenedClientIsClosed ==
    \A t \in Tasks :
        mpc[t] \in Ended /\ conn[ClientOf(t)] # "unopened"
        => conn[ClientOf(t)] = "closed"

\* C4: a packet with ids and types of the int32 range and at most 4096 bytes
\* of data, sent with _send_packet, echoed and handed over whole, is read
\* back by _recv_packet as the same (request_id, type, data); and a text
\* without a zero byte, sent with _send_text_packet, is read back by
\* _recv_text_packet as the same (request_id, type, text).
DataBytes(data) == IF data.kind = "str" THEN encode(data.v) ELSE data.v

Echoed(t) ==
    /\ Finished(t)
    /\ sent[ClientOf(t)] = <<Echo>>
    /\ ~cut[ClientOf(t)] /\ ~eof[ClientOf(t)]

SameAsSent(t) ==
    /\ exc[t] = "none"
    /\ got[t] = <<Packet(arg[t].packet.request_id, arg[t].packet.type,
                         Bytes(DataBytes(arg[t].packet.data)))>>

C4_RoundTrip ==
    \A t \in Tasks :
        /\ (Echoed(t) /\ arg[t].via = "_send_packet"
            /\ op[t] = "_recv_packet") => SameAsSent(t)
        /\ (Echoed(t) /\ arg[t].via = "_send_text_packet"
            /\ op[t] = "_recv_text_packet"
            /\ find_zero(DataBytes(arg[t].packet.data)) = 0)
           => SameAsSent(t)

\* C5: on every client at most one login or execute call is in progress at
\* any time, and a request is written to its transport only when no call on
\* it is in progress.
InProgress(c) == {t \in Tasks : ClientOf(t) = c /\ rd[t] # "none"}

C5_Lockstep ==
    /\ [](\A c \in Clients : Cardinality(InProgress(c)) <= 1)
    /\ [][\A c \in Clients :
              written'[c] # written[c] => InProgress(c) = {}]_vars

C5_Witness ==
    \E c, d \in Clients :
        /\ c # d /\ InProgress(d) # {}
        /\ InProgress(c) # {} /\ Len(written[c]) >= 2

\* C6: an EXECUTE packet is written to a client's transport only after a
\* login call on that client has returned and while the client is open.
WrittenId(w) == from_bytes_signed(SubSeq(w, 5, 8))

WrittenType(w) == from_bytes_signed(SubSeq(w, 9, 12))

C6_ExecuteOnlyWhenAuthenticated ==
    [][\A c \in Clients :
          (/\ Len(written'[c]) > Len(written[c])
           /\ WrittenType(written'[c][Len(written'[c])]) = EXECUTE)
          => authed[c] /\ conn[c] = "open"]_vars

C6_Witness ==
    \E c, d \in Clients :
        /\ authed[c] /\ Len(written[c]) >= 2
        /\ WrittenType(written[c][2]) = EXECUTE
        /\ conn[d] = "closed" /\ ~authed[d] /\ Len(written[d]) = 1

\* C7: when the login response carries a request id other than the one
\* login sent, login raises the request-id error, the client does not count
\* as logged in, on_modal takes the failure path and bot.rcons does not get
\* the client.
C7_LoginIdMismatchFails ==
    \A t \in Tasks :
        (/\ op[t] = "login" /\ Finished(t)
         /\ got[t] # <<>> /\ got[t][1].request_id # req_i[t])
        => /\ exc[t] = "ValueError: Invalid request ID"
           /\ ~authed[ClientOf(t)]
           /\ mpc[t] \in {"login_failed", "done"}
           /\ \A u \in DOMAIN rcons : rcons[u] # ClientOf(t)

C7_Witness ==
    \E t \in Tasks :
        /\ op[t] = "login" /\ Finished(t)
        /\ got[t] # <<>> /\ got[t][1].request_id = req_i[t] + 1
        /\ exc[t] = "ValueError: Invalid request ID"

\* C8: when a fragment execute reads carries a request id other than the
\* one execute sent, execute raises the request-id error at that fragment:
\* result is left as it was, nothing is returned, and the call (and with it
\* on_modal) has ended, so that it reads no further frame.
WrongId(t) ==
    /\ op[t] = "execute" /\ Finished(t)
    /\ got[t] # <<>> /\ got[t][1].request_id # req_i[t]

C8_WrongIdFragment ==
    /\ [](\A t \in Tasks :
              WrongId(t) => /\ exc[t] = "ValueError: Invalid request ID"
                            /\ ret[t] = <<>>
                            /\ mpc[t] = "crashed")
    /\ [][\A t \in Tasks :
              (/\ op[t] = "execute" /\ rd[t] = "body"
               /\ got'[t] # <<>> /\ got'[t][1].request_id # req_i[t])
              => /\ result'[t] = result[t]
                 /\ rd'[t] = "none"
                 /\ nread'[t] = nread[t] + 1]_vars

C8_Witness ==
    \E t \in Tasks : WrongId(t) /\ Len(got[t][1].data.v) = 10

\* C9: the counter of a client starts at 0 and never decreases; a request
\* written carries the counter's value and advances it by one, so the ids
\* written on a client are strictly increasing; after a login with id 0 has
\* returned the counter is 1.
C9_RequestIdCounter ==
    /\ [](\A c \in Clients :
              /\ conn[c] = "unopened" => _i[c] = 0
              /\ \A k \in 1..Len(written[c]) :
                     /\ WrittenId(written[c][k]) \in 0..(_i[c] - 1)
                     /\ \A j \in 1..(k - 1) :
                            WrittenId(written[c][j])
                                < WrittenId(written[c][k]))
    /\ [](\A t \in Tasks :
              (op[t] = "login" /\ exc[t] = "none")
              => req_i[t] = 0 /\ _i[ClientOf(t)] = 1)
    /\ [][\A c \in Clients :
              /\ _i'[c] \in {_i[c], _i[c] + 1}
              /\ written'[c] # written[c]
                 => /\ WrittenId(written'[c][Len(written'[c])]) = _i[c]
                    /\ _i'[c] = _i[c] + 1]_vars

C9_Witness ==
    \E c \in Clients :
        /\ Len(written[c]) = 2 /\ _i[c] = 2
        /\ WrittenType(written[c][1]) = LOGIN
        /\ WrittenId(written[c][2]) = 1

\* C10: _recv_packet decides on the declared length alone: 8 or less raises
\* the too-small error, 1456 or more the too-big error, and with a declared
\* length of 9 to 1455 and that many bytes in the buffer it returns the
\* packet whose data is the body without its first 8 bytes and its last.
C10_DeclaredLength ==
    [][\A t \in Tasks :
          LET b == inbuf[ClientOf(t)]
              n == from_bytes_unsigned(SubSeq(b, 1, 4))
          IN  /\ (rd[t] = "len" /\ rd'[t] # "len" /\ Len(b) >= 4)
                 => /\ n <= 8 => exc'[t] = "ValueError: too small packet"
                    /\ n >= 1456 => exc'[t] = "ValueError: too big packet"
                    /\ n \in 9..1455 => rd'[t] = "body" /\ frame_n'[t] = n
              /\ (/\ rd[t] = "body" /\ rd'[t] # "body"
                  /\ op[t] = "_recv_packet" /\ Len(b) >= frame_n[t])
                 => /\ exc'[t] = "none"
                    /\ got'[t] =
                         <<Packet(from_bytes_signed(SubSeq(b, 1, 4)),
                                  from_bytes_signed(SubSeq(b, 5, 8)),
                                  Bytes(SubSeq(b, 9, frame_n[t] - 1)))>>
         ]_vars

C10_Witness ==
    \E t \in Tasks :
        /\ op[t] = "_recv_packet" /\ exc[t] = "none"
        /\ frame_n[t] = 1455
        /\ got[t] # <<>> /\ Len(got[t][1].data.v) = 1446

\* C11: when the server answers an execute request, on a connection with
\* nothing left unread, with one frame that carries the request's id, type
\* RESPONSE and a payload of less than 4096 bytes before its terminator,
\* execute returns exactly that payload.
SingleFrame(t) ==
    LET f == sent[ClientOf(t)]
    IN  /\ op[t] = "execute" /\ Finished(t) /\ fresh[t]
        /\ Len(f) = 1 /\ f[1].form = "text"
        /\ f[1].id = req_i[t] /\ f[1].type = RESPONSE

C11_SingleFrameIsReturned ==
    \A t \in Tasks :
        (SingleFrame(t) /\ sent[ClientOf(t)][1].n < 4096)
        => /\ exc[t] = "none"
           /\ ret[t] = Fill(sent[ClientOf(t)][1].n, 65)

\* C12: an error raised in login or execute does not close the transport:
\* the step in which the call raises leaves the connection open, after it
\* the connection is open until the caller closes it, and a connection
\* becomes closed only in a step of on_modal that calls close().
Raised(t) ==
    /\ op[t] \in {"login", "execute"}
    /\ Finished(t) /\ exc[t] # "none"

C12_ErrorsLeaveTransportOpen ==
    /\ [](\A t \in Tasks :
              (Raised(t) /\ mpc[t] \in {"login_failed", "crashed"})
              => conn[ClientOf(t)] = "open")
    /\ [][\A t \in Tasks :
              /\ (Raised(t)' /\ ~Raised(t))
                 => conn'[ClientOf(t)] = "open"
              /\ (conn'[ClientOf(t)] = "closed"
                  /\ conn[ClientOf(t)] # "closed")
                 => mpc[t] \in {"login_failed", "terminating"}]_vars

C12_Witness ==
    \E t \in Tasks :
        /\ op[t] = "execute" /\ mpc[t] = "crashed"
        /\ exc[t] = "ValueError: data is not zero-terminated"
        /\ conn[ClientOf(t)] = "open"

\* C13: _build_packet, given a packet with ids of the int32 range, raises
\* the too-large error for data of 4097 bytes or more, and nothing is
\* written; for data of exactly 4096 bytes it returns request_id (4 bytes),
\* type (4 bytes), the data and one zero byte, which _send_packet writes
\* after the length 4105.
SendStep(t) ==
    /\ exc[t] = "none"
    /\ \/ written'[ClientOf(t)] # written[ClientOf(t)]
       \/ exc'[t] \notin {"none", "pending"}

\* the packet _build_packet is given by the send of a
Built(a) ==
    IF a.via = "_send_text_packet"
    THEN Packet(a.packet.request_id, a.packet.type,
                Bytes(encode(a.packet.data.v) \o <<0>>))
    ELSE Packet(a.packet.request_id, a.packet.type,
                Bytes(DataBytes(a.packet.data)))

C13_DataLimit ==
    [][\A t \in Tasks :
          (/\ SendStep(t)
           /\ arg'[t].packet.data.kind \in
                  (IF arg'[t].via = "_send_text_packet" THEN {"str"}
                   ELSE {"str", "bytes"}))
          => LET c == ClientOf(t)
                 b == Built(arg'[t])
             IN  /\ Len(b.data.v) >= 4097
                    => /\ exc'[t] = "ValueError: too large data"
                       /\ written'[c] = written[c]
                 /\ Len(b.data.v) = 4096
                    => /\ exc'[t] = "none"
                       /\ written'[c] =
                            Append(written[c],
                                   to_bytes_unsigned(4105)
                                   \o to_bytes_signed(b.request_id)
                                   \o to_bytes_signed(b.type)
                                   \o b.data.v \o <<0>>)]_vars

C13_Witness ==
    \E t \in Tasks :
        /\ arg[t].via = "_send_packet" /\ exc[t] = "none"
        /\ Len(DataBytes(arg[t].packet.data)) = 4096
        /\ Len(written[ClientOf(t)]) = 1
        /\ Len(written[ClientOf(t)][1]) = 4109

\* C14: when _recv_packet returns to login a packet whose request id is
\* the id login sent, login returns, whatever the packet's type and data,
\* and on_modal goes on to the session.
C14_LoginChecksIdOnly ==
    \A t \in Tasks :
        (/\ op[t] = "login" /\ Finished(t)
         /\ got[t] # <<>> /\ got[t][1].request_id = req_i[t])
        => /\ exc[t] = "none"
           /\ authed[ClientOf(t)]
           /\ mpc[t] \notin {"login_failed", "crashed"}

C14_Witness ==
    \E t \in Tasks :
        /\ op[t] = "login" /\ Finished(t) /\ exc[t] = "none"
        /\ got[t] # <<>> /\ got[t][1].request_id = req_i[t]
        /\ got[t][1].type = EXECUTE
        /\ Len(got[t][1].data.v) = 11

\* C15: of a fragment execute reads the request id is checked before the
\* type: with an id other than the one sent execute raises the request-id
\* error whatever the type, with the id sent and a type other than RESPONSE
\* it raises the response-type error, and in both cases result stays as it
\* was.
C15_IdBeforeType ==
    [][\A t \in Tasks :
          (/\ op[t] = "execute" /\ rd[t] = "body" /\ got'[t] # <<>>
           /\ (got'[t][1].request_id # req_i[t]
               \/ got'[t][1].type # 0))
          => /\ exc'[t] = IF got'[t][1].request_id # req_i[t]
                          THEN "ValueError: Invalid request ID"
                          ELSE "ValueError: Invalid response type"
             /\ result'[t] = result[t]
             /\ ret'[t] = <<>>]_vars

C15_Witness ==
    \E t \in Tasks :
        /\ op[t] = "execute" /\ Finished(t) /\ got[t] # <<>>
        /\ got[t][1].request_id # req_i[t] /\ got[t][1].type # RESPONSE
        /\ Len(got[t][1].data.v) > 0
        /\ exc[t] = "ValueError: Invalid request ID"
        /\ result[t] = <<>>

\* C16: login or execute with a text whose UTF-8 encoding has at most 4095
\* bytes writes one frame, the text with its terminator and the pad; with a
\* text whose encoding has 4096 bytes or more it raises the too-large error
\* and writes nothing.
CallStep(t) == _i'[ClientOf(t)] # _i[ClientOf(t)]

C16_TextBudget ==
    [][\A t \in Tasks :
          (CallStep(t) /\ arg'[t].packet.data.kind = "str")
          => LET c == ClientOf(t)
                 a == arg'[t].packet
                 text == encode(a.data.v)
             IN  /\ Len(text) <= 4095
                    => /\ exc'[t] = "pending"
                       /\ written'[c] =
                            Append(written[c],
                                   to_bytes_unsigned(Len(text) + 10)
                                   \o to_bytes_signed(a.request_id)
                                   \o to_bytes_signed(a.type)
                                   \o text \o <<0, 0>>)
                 /\ Len(text) >= 4096
                    => /\ exc'[t] = "ValueError: too large data"
                       /\ written'[c] = written[c]]_vars

C16_Witness ==
    \E t \in Tasks :
        /\ op[t] = "execute" /\ arg[t].packet.data.kind = "str"
        /\ Len(arg[t].packet.data.v) = 4095
        /\ Len(written[ClientOf(t)]) = 2
        /\ Len(written[ClientOf(t)][2]) = 4109

\* C17: the step in which /disconnect answers "Disconnected." to a user who
\* has an entry in bot.rcons closes that user's client and removes the entry
\* (so that connect, which refuses a user with an entry, lets a following
\* /rcon of the user through).
C17_DisconnectClosesAndRemoves ==
    [][\A u \in Users :
          (disconnected'[u] > disconnected[u] /\ u \in DOMAIN rcons)
          => /\ u \notin DOMAIN rcons'
             /\ conn'[rcons[u]] = "closed"]_vars

\* C18: a user id is a key of bot.rcons exactly while that user has a
\* client that is logged in and not closed, a user has at most one such
\* client at a time, and no handler deletes a key that is absent (the del
\* of an absent key raises KeyError).
Live(u) ==
    {t \in Tasks : /\ user[t] = u
                   /\ authed[ClientOf(t)]
                   /\ conn[ClientOf(t)] = "open"}

C18_RconsConsistent ==
    /\ \A u \in Users : u \in DOMAIN rcons <=> Live(u) # {}
    /\ \A u \in Users : Cardinality(Live(u)) <= 1
    /\ \A t \in Tasks : cpc[t] # "KeyError" /\ mpc[t] # "KeyError"

\* C19: execute never reads a second frame: a fragment _recv_text_packet
\* returns has a payload of at most 1445 bytes, which is less than 4096, so
\* the loop ends with it; a call that returns has read exactly one frame
\* and returns at most 1445 bytes.
C19_OneFramePerExecute ==
    \A t \in Tasks :
        op[t] = "execute"
        => /\ nread[t] <= 1
           /\ rd[t] # "none" => nread[t] = 0
           /\ got[t] # <<>> => Len(got[t][1].data.v) <= 1445
           /\ (Finished(t) /\ exc[t] = "none")
              => /\ nread[t] = 1
                 /\ ret[t] = got[t][1].data.v
                 /\ Len(ret[t]) <= 1445

C19_Witness ==
    \E t \in Tasks :
        /\ op[t] = "execute" /\ Finished(t) /\ exc[t] = "none"
        /\ nread[t] = 1 /\ Len(ret[t]) = 1445

\* C20: every login or execute call that starts takes the counter's value
\* as its id and advances the counter by one, also when it raises before it
\* writes; nothing else changes the counter, so that it counts the calls
\* started, and the id of a call that failed is below the counter, which is
\* the id of the next call.
Started(t) ==
    \/ mpc[t] = "open" /\ mpc'[t] \in {"login", "login_failed", "crashed"}
    \/ mpc[t] = "waiting" /\ mpc'[t] \in {"execute", "crashed"}

C20_EveryCallTakesAnId ==
    /\ [](\A t \in Tasks :
              op[t] \in {"login", "execute"}
              => req_i[t] = _i[ClientOf(t)] - 1)
    /\ [][\A t \in Tasks :
              IF Started(t)
              THEN /\ req_i'[t] = _i[ClientOf(t)]
                   /\ _i'[ClientOf(t)] = _i[ClientOf(t)] + 1
              ELSE _i'[ClientOf(t)] = _i[ClientOf(t)]]_vars

C20_Witness ==
    \E t \in Tasks :
        /\ op[t] = "execute" /\ exc[t] = "ValueError: too large data"
        /\ req_i[t] = 1 /\ _i[ClientOf(t)] = 2
        /\ Len(written[ClientOf(t)]) = 1

====
